---- MODULE Spec2Model ----
(***************************************************************************)
(* Card composition and export engine of parasha-pack.                     *)
(*                                                                         *)
(* Part 1: the export orchestrator (scripts/export-deck: exportDeck,       *)
(* exportCard, startDevServer, waitForServer and the CLI entry point),     *)
(* together with the two export pages it drives and the on-disk layout     *)
(* configuration those pages read.                                         *)
(*                                                                         *)
(* One step of the model is one awaited call (or one synchronous stretch   *)
(* between two awaits) of the orchestrator.  Every awaited call of the     *)
(* rendering client may resolve or reject; the environment chooses.        *)
(*                                                                         *)
(* Part 2: a card on its way from deck.json to the screen (getDeck,        *)
(* normalizeFieldNames, CardFactory, the text of the front components).    *)
(* Part 3: FitText, in its canvas and its DOM version.                     *)
(* Part 4: a card front shown with a layout configuration: the layout of a *)
(* story card, the draggable elements and their saved positions.           *)
(*                                                                         *)
(* Each part has its own specification (Spec, SpecCard, SpecFit,           *)
(* SpecDrag); the variables of the other parts rest while it runs.         *)
(***************************************************************************)
EXTENDS Integers, Sequences, FiniteSets, TLC

(***************************************************************************)
(* Bounds of the model                                                     *)
(***************************************************************************)
\* longest manifest (number of cards of a deck)
MaxCards == 2
\* rejected per-unit calls the environment may produce in one run
MaxFaults == 2
\* runs of the export command on the same deck
MaxRuns == 2

(***************************************************************************)
(* Program constants                                                       *)
(***************************************************************************)
CARD_WIDTH == 1500
CARD_HEIGHT == 2100
\* browser.newContext({ deviceScaleFactor: 1 }); the other value is the scale
\* factor of a high-density display
deviceScaleFactorHiDpi == 1 + 1
deviceScaleFactor == 1
\* waitForServer(url, maxAttempts = 30)
maxAttempts == 30

\* the container the front export page renders (style width / height, in px)
FrontPageContainer == [width |-> 1500, height |-> 2100]
\* the container the back export page renders
BackPageContainer == [width |-> 1500, height |-> 2100]

\* browser.newContext({ viewport: ... })
Viewport == [width |-> CARD_WIDTH, height |-> CARD_HEIGHT]
\* page.screenshot({ clip: ... })
ClipRect == [x |-> 0, y |-> 0, width |-> CARD_WIDTH, height |-> CARD_HEIGHT]

(***************************************************************************)
(* Inputs                                                                  *)
(***************************************************************************)
\* card ids of the decks considered; "a_back" makes <id>.png and
\* <id>_back.png meet as file names
CardIds == {"a", "a_back", "b"}
Sides == {"front", "back"}
Flags == {"--backs", "--backs-only", "--fronts-only"}
\* export <deckId> [--backs | --backs-only | --fronts-only]
CommandFlags == {f \in SUBSET Flags : Cardinality(f) <= 1}
\* the non-flag argument of the command line; NoDeck: none given
NoDeck == "undefined"
DeckIds == {"purim"}
\* values of layout_settings.json; DefaultConfig: what the page uses while
\* nothing has been saved
Configs == {"default", "edited"}
DefaultConfig == "default"
\* config of a page that reads none (the back export page)
NoConfig == "none"

Min(a, b) == IF a <= b THEN a ELSE b
Range(s) == {s[n] : n \in DOMAIN s}

\* deck.cards: card ids are the identifiers of the cards, pairwise distinct
Manifests ==
  {m \in UNION {[1..n -> CardIds] : n \in 0..MaxCards} :
     \A x, y \in DOMAIN m : m[x] = m[y] => x = y}

VARIABLES
  argv,            \* [deckId, flags]: process.argv.slice(2)
  manifestExists,  \* existsSync(deckPath)
  cards,           \* deck.cards of the manifest (card ids, manifest order)
  layoutSettings,  \* layout_settings.json on the rendering server's disk
  run,             \* number of the current run of the command
  pc,              \* position of the orchestrator
  options,         \* ExportOptions
  serverState,     \* Unknown, Ready, Spawning, Failed
  serverProcess,   \* "null" or "child": what startDevServer returns
  spawned,         \* whether this run spawned a child process
  probe,           \* outcome of the initial probe: "none", "ok", "failed"
  ready,           \* result of the last reachability check
  i,               \* waitForServer's attempt counter
  killCalls,       \* serverProcess.kill() calls of this run
  browser,         \* "none", "open", "closed"
  k,               \* position in the unit list (fronts loop, then backs loop)
  contexts,        \* open rendering contexts
  pageConfig,      \* layout configuration the navigated page was rendered with
  attempts,        \* units exportCard was called for in this run, in order
  failed,          \* console.error lines of exportCard: <<position, step>>
  rejections,      \* awaited calls of exportCard that rejected: <<position, step>>
  written,         \* positions whose raster file was written in this run
  escaped,         \* step whose error left exportCard, or "none"
  loopCompleted,   \* '✓ Export complete!' was logged
  rejected,        \* exportDeck's promise was rejected
  exitCode,        \* -1 while running
  fs,              \* output files: path -> raster
  dirs,            \* directories created
  fs0              \* fs when the current run started

\* the card designer: one card entry of deck.json on its way to the screen
VARIABLES
  entry,           \* the entry of deck.json: [top, front, back]
  loaded,          \* the card getDeck returns for it, or NotLoaded
  sideProp,        \* the side prop CardFactory was last called with
  rendering        \* what CardFactory last returned, or NoRendering

cardVars == <<entry, loaded, sideProp, rendering>>

\* the card designer: one mounted FitText
VARIABLES
  engine,          \* which FitText: "canvas" (measureText) or "dom" (scrollWidth)
  fontsApi,        \* whether document.fonts?.ready exists
  props,           \* [children, maxSize, minSize, padding] of the last render
  fontSize,        \* the fontSize state of the component
  styleFontSize,   \* style.fontSize of the text element
  width,           \* width of the container element
  fontsReady,      \* document.fonts.ready has resolved
  effectDue,       \* the effect of the last render has not run yet
  pending,         \* scheduled callbacks: [stage, props of their closure]
  observer,        \* props in the closure of the connected ResizeObserver
  observerDue,     \* the observer has a notification to deliver
  rerendered,      \* the parent has rendered FitText with other props
  last             \* the last call of measure: [width, size]

fitVars == <<engine, fontsApi, props, fontSize, styleFontSize, width,
             fontsReady, effectDue, pending, observer, observerDue, rerendered,
             last>>

\* the card designer: a card front shown with a layout configuration
VARIABLES
  host,             \* what the page passes to the card: [config, onConfigChange]
  theme,            \* config.theme
  elementPositions, \* config.elementPositions: [defined, at]
  shown,            \* card_type of the card that is shown
  applied,          \* the last rendering: [layout, offsets of its elements]
  lastDrag,         \* the drag that has just ended: [id, offset]
  trail             \* what the user did last to the positions

dragVars == <<host, theme, elementPositions, shown, applied, lastDrag, trail>>

\* the state of the card designer's components
uiVars == <<cardVars, fitVars, dragVars>>

exportVars == <<argv, manifestExists, cards, layoutSettings, run, pc, options,
                serverState, serverProcess, spawned, probe, ready, i,
                killCalls, browser, k,
                contexts, pageConfig, attempts, failed, rejections, written,
                escaped, loopCompleted, rejected, exitCode, fs, dirs, fs0>>

vars == <<exportVars, uiVars>>

inputVars == <<argv, manifestExists, cards>>
serverVars == <<serverState, serverProcess, spawned, probe, ready, i,
               killCalls>>
unitVars == <<k, contexts, pageConfig, attempts, failed, rejections, written,
             escaped>>
diskVars == <<fs, dirs>>
histVars == <<fs0, run>>

(***************************************************************************)
(* Part 2: a card on its way from deck.json to the screen (getDeck,        *)
(* normalizeFieldNames, normalizeImagePath, CardFactory and the front      *)
(* components).  A card object is a function from the names of the fields  *)
(* it has to their values.                                                 *)
(***************************************************************************)
\* the declared values of card_type (the members of the CardData union)
CardTypes ==
  {"anchor", "spotlight", "story", "connection", "power_word", "tradition"}
\* a card_type no member of the union declares
UnknownType == "mystery"
AllTypes == CardTypes \cup {UnknownType}

\* most optional fields a deck.json entry carries at its top level
MaxFields == 2

\* { ...a, ...b }
Spread(a, b) ==
  [f \in DOMAIN a \cup DOMAIN b |-> IF f \in DOMAIN b THEN b[f] ELSE a[f]]

\* { [f]: v }
Field(f, v) == [g \in {f} |-> v]

\* the value a text field has in the top-level entry, in its nested front
\* or in its nested back object
Value(f, where) == f \o "@" \o where

\* the empty string, the one value of a text field that is present and falsy
Blank == ""

TextFields ==
  {"title_he", "title_en", "hebrew_title", "english_title",
   "hebrew_name", "english_name", "emotion_word_he", "emotion_word_en",
   "character_name_he", "character_name_en", "emotion_label_he",
   "emotion_label_en", "english_description", "description_en",
   "hebrew_word", "english_meaning"}
ListFields == {"emojis", "feeling_faces"}
OptionalFields == TextFields \cup ListFields \cup {"image_path"}

\* o.f is truthy: the field is there and, a text, not the empty string (an
\* empty array is truthy)
Truthy(o, f) == f \in DOMAIN o /\ (f \in TextFields => o[f] # Blank)

\* values of emojis; of feeling_faces (each face given by its emoji, "" for
\* a face without one); of image_path (the segments between the slashes)
EmojiLists == {<<>>, <<"e1", "e2">>}
FaceLists == {<<"e1", "", "e2">>}
ImagePaths == {<<"images", "a.png">>, <<"raw", "a.png">>, <<"art", "a.png">>}
NoImagePath == <<>>

TheCardId == "a"
OtherCardId == "z"

\* the text fields that deck.json may hold as an empty string
BlankFields == {"hebrew_name", "character_name_he"}

\* the top level of an entry: card_id, card_type and at most MaxFields
\* optional fields
TopLevels ==
  {[f \in {"card_id", "card_type"} \cup S |->
      CASE f = "card_id" -> TheCardId
        [] f = "card_type" -> t
        [] f = "emojis" -> e
        [] f = "feeling_faces" -> ff
        [] f = "image_path" -> p
        [] f \in B -> Blank
        [] OTHER -> Value(f, "top")] :
     t \in AllTypes, e \in EmojiLists, ff \in FaceLists, p \in ImagePaths,
     B \in SUBSET BlankFields,
     S \in {X \in SUBSET OptionalFields : Cardinality(X) <= MaxFields}}

\* the nested front and back objects of an entry (absent: the empty object)
NestedObjects(where) ==
  {<<>>}
    \cup {Field("card_type", t) : t \in {"story", UnknownType}}
    \cup {Field("card_id", OtherCardId)}
    \cup {Field(f, Value(f, where)) : f \in {"hebrew_name", "title_he"}}

Entries ==
  [top : TopLevels, front : NestedObjects("front"),
   back : NestedObjects("back") \ {Field("card_id", OtherCardId)}]

\* normalizeImagePath(imagePath, cardId): raw/{cardId}.png when there is
\* none, images/... turned into raw/...
normalizeImagePath(imagePath, cardId) ==
  IF imagePath = NoImagePath THEN <<"raw", cardId \o ".png">>
  ELSE IF Head(imagePath) = "images" /\ Len(imagePath) > 1
    THEN <<"raw">> \o Tail(imagePath)
  ELSE imagePath

\* normalized[to] = normalized[from] when to is not set and from is
Alias(o, to, from) ==
  IF ~Truthy(o, to) /\ Truthy(o, from)
    THEN Spread(o, Field(to, o[from]))
    ELSE o

\* feeling_faces.map(f => f.emoji).filter(Boolean)
FaceEmojis(faces) == SelectSeq(faces, LAMBDA e : e # "")

\* normalizeFieldNames(card): the legacy names, by card_type
normalizeFieldNames(card) ==
  CASE card["card_type"] = "spotlight" ->
         Alias(Alias(Alias(Alias(card,
           "hebrew_name", "character_name_he"),
           "english_name", "character_name_en"),
           "emotion_word_he", "emotion_label_he"),
           "emotion_word_en", "emotion_label_en")
    [] card["card_type"] = "story" ->
         Alias(card, "english_description", "description_en")
    [] card["card_type"] = "connection" ->
         IF ~Truthy(card, "emojis") /\ Truthy(card, "feeling_faces")
           THEN Spread(card, Field("emojis", FaceEmojis(card["feeling_faces"])))
           ELSE card
    [] card["card_type"] \in {"tradition", "anchor"} ->
         Alias(Alias(card, "hebrew_title", "title_he"),
               "english_title", "title_en")
    [] OTHER -> card

\* { ...card, ...(card.front || {}), ...(card.back || {}), image_path }
Merge(e) ==
  Spread(Spread(Spread(e.top, e.front), e.back),
         Field("image_path",
               normalizeImagePath(IF Truthy(e.top, "image_path")
                                    THEN e.top["image_path"]
                                    ELSE NoImagePath,
                                  e.top["card_id"])))

\* getDeck, for one entry of data.cards
getDeck(e) == normalizeFieldNames(Merge(e))

(***************************************************************************)
(* CardFactory and the components it returns                               *)
(***************************************************************************)
\* the side prop: 'front', 'back', or not passed
Omitted == "omitted"
SideProps == {"front", "back", Omitted}

\* the components, each with the variant and the side it is written for
Components ==
  {[name |-> "AnchorCard", card_type |-> "anchor", side |-> "front"],
   [name |-> "SpotlightCard", card_type |-> "spotlight", side |-> "front"],
   [name |-> "StoryCard", card_type |-> "story", side |-> "front"],
   [name |-> "ConnectionCard", card_type |-> "connection", side |-> "front"],
   [name |-> "PowerWordCard", card_type |-> "power_word", side |-> "front"],
   [name |-> "TraditionCard", card_type |-> "tradition", side |-> "front"],
   [name |-> "AnchorCardBack", card_type |-> "anchor", side |-> "back"],
   [name |-> "SpotlightCardBack", card_type |-> "spotlight", side |-> "back"],
   [name |-> "StoryCardBack", card_type |-> "story", side |-> "back"],
   [name |-> "ConnectionCardBack", card_type |-> "connection",
    side |-> "back"],
   [name |-> "PowerWordCardBack", card_type |-> "power_word",
    side |-> "back"],
   [name |-> "TraditionCardBack", card_type |-> "tradition", side |-> "back"]}

\* the two default branches of CardFactory, named by the text they show
UnknownCardFront == "Unknown Card Type"
UnknownCardBack == "Unknown Card Type (back)"
Placeholders == {UnknownCardFront, UnknownCardBack}

\* side = 'front' in the parameter list of CardFactory
SideOrDefault(side) == IF side = Omitted THEN "front" ELSE side

\* (CardFactoryIgnoringSide: the back switch left out)
CardFactoryIgnoringSide(card, side) ==
  CASE card["card_type"] = "anchor" -> "AnchorCard"
    [] card["card_type"] = "spotlight" -> "SpotlightCard"
    [] card["card_type"] = "story" -> "StoryCard"
    [] card["card_type"] = "connection" -> "ConnectionCard"
    [] card["card_type"] = "power_word" -> "PowerWordCard"
    [] card["card_type"] = "tradition" -> "TraditionCard"
    [] OTHER -> UnknownCardFront

\* CardFactory: the component the card is rendered with
CardFactory(card, side) ==
  IF SideOrDefault(side) = "back"
    THEN CASE card["card_type"] = "anchor" -> "AnchorCardBack"
           [] card["card_type"] = "spotlight" -> "SpotlightCardBack"
           [] card["card_type"] = "story" -> "StoryCardBack"
           [] card["card_type"] = "connection" -> "ConnectionCardBack"
           [] card["card_type"] = "power_word" -> "PowerWordCardBack"
           [] card["card_type"] = "tradition" -> "TraditionCardBack"
           [] OTHER -> UnknownCardBack
    ELSE CASE card["card_type"] = "anchor" -> "AnchorCard"
           [] card["card_type"] = "spotlight" -> "SpotlightCard"
           [] card["card_type"] = "story" -> "StoryCard"
           [] card["card_type"] = "connection" -> "ConnectionCard"
           [] card["card_type"] = "power_word" -> "PowerWordCard"
           [] card["card_type"] = "tradition" -> "TraditionCard"
           [] OTHER -> UnknownCardFront

\* the id of the outermost element of a component: `card-${card_id}` on a
\* front, `card-${card_id}-back` on a back; the placeholders have none
NoId == <<>>
AnchorCardElementId(card) == <<"card-", card["card_id"]>>
ElementId(component, card) ==
  CASE component \in Placeholders -> NoId
    [] component = "AnchorCard" -> AnchorCardElementId(card)
    [] component \in {c.name : c \in {d \in Components : d.side = "back"}} ->
         <<"card-", card["card_id"], "-back">>
    [] OTHER -> <<"card-", card["card_id"]>>

\* the selector [id^="card-"]
MatchesReadinessSelector(id) == id # NoId /\ Head(id) = "card-"

\* a text node {card.f}: nothing when the card has no such field
Opt(card, f) == IF Truthy(card, f) THEN {card[f]} ELSE {}

\* the fallback titles and the fallback row of ConnectionCard (the Hebrew
\* literal is written in Latin letters)
DefaultTitleHe == "chibur"
DefaultTitleEn == "CONNECTION"
NoEmojisText == "No emojis defined"

\* the front components whose text nodes are modelled
TextComponents ==
  {"SpotlightCard", "ConnectionCard", "TraditionCard", "PowerWordCard"}

\* the text nodes of a front component
FrontTexts(component, card) ==
  CASE component = "SpotlightCard" ->
         Opt(card, "hebrew_name") \cup Opt(card, "english_name")
           \cup Opt(card, "emotion_word_he") \cup Opt(card, "emotion_word_en")
    [] component = "ConnectionCard" ->
         (IF Truthy(card, "title_he") THEN {card["title_he"]}
                                      ELSE {DefaultTitleHe})
           \cup (IF Truthy(card, "title_en") THEN {card["title_en"]}
                                             ELSE {DefaultTitleEn})
           \cup (IF Truthy(card, "emojis") THEN Range(card["emojis"]) ELSE {})
           \cup (IF ~Truthy(card, "emojis") \/ Len(card["emojis"]) = 0
                   THEN {NoEmojisText} ELSE {})
    [] component = "TraditionCard" ->
         Opt(card, "hebrew_title") \cup Opt(card, "english_title")
    [] component = "PowerWordCard" ->
         Opt(card, "hebrew_word") \cup Opt(card, "english_meaning")

\* what CardFactory puts on the screen
NoRendering == [component |-> "none"]
Rendering(card, side) ==
  LET component == CardFactory(card, side) IN
    IF component \in TextComponents
      THEN [component |-> component, id |-> ElementId(component, card),
            texts |-> FrontTexts(component, card)]
      ELSE [component |-> component, id |-> ElementId(component, card)]

\* no card is on its way
NoEntry == [top |-> <<>>, front |-> <<>>, back |-> <<>>]
NotLoaded == <<>>
NoSide == "none"
CardIdle ==
  /\ entry = NoEntry
  /\ loaded = NotLoaded
  /\ sideProp = NoSide
  /\ rendering = NoRendering

\* no FitText is mounted
NoProps == [children |-> 0, maxSize |-> 0, minSize |-> 0, padding |-> 0]
NoMeasure == [width |-> -1, size |-> -1]
FitIdle ==
  /\ engine = "none"
  /\ fontsApi = FALSE
  /\ props = NoProps
  /\ fontSize = 0
  /\ styleFontSize = 0
  /\ width = 0
  /\ fontsReady = FALSE
  /\ effectDue = FALSE
  /\ pending = {}
  /\ observer = NoProps
  /\ observerDue = FALSE
  /\ rerendered = FALSE
  /\ last = NoMeasure

\* a configuration without elementPositions; no card is shown
Absent == [defined |-> FALSE, at |-> <<>>]
NoHost == [config |-> FALSE, onConfigChange |-> FALSE]
NoDrag == [id |-> "none", offset |-> [x |-> 0, y |-> 0]]
DragIdle ==
  /\ host = NoHost
  /\ theme = "none"
  /\ elementPositions = Absent
  /\ shown = "none"
  /\ applied = [layout |-> "none", offsets |-> <<>>]
  /\ lastDrag = NoDrag
  /\ trail = "none"

\* the card designer's components at rest
UiIdle == CardIdle /\ FitIdle /\ DragIdle

\* the cards of the exported deck: their types
DeckCardType(cardId) ==
  CASE cardId = "a" -> "story"
    [] cardId = "a_back" -> "spotlight"
    [] OTHER -> UnknownType

\* the card the export pages find for a unit (deck.cards.find by card_id)
DeckCard(cardId) ==
  [f \in {"card_id", "card_type"} |->
     IF f = "card_id" THEN cardId ELSE DeckCardType(cardId)]

\* the export pages: ExportCardPage passes side="front", ExportCardBackPage
\* side="back"
PageElementId(u) == ElementId(CardFactory(DeckCard(u.card), u.side), DeckCard(u.card))

(***************************************************************************)
(* CLI entry point                                                         *)
(***************************************************************************)
hasBacksFlag(args) == "--backs" \in args
hasBacksOnlyFlag(args) == "--backs-only" \in args
hasFrontsOnlyFlag(args) == "--fronts-only" \in args

\* the options object, after the 'default: fronts only if no flags' patch
\* (ExportOptionsAlwaysFronts: fronts not switched off by --backs-only)
ExportOptionsAlwaysFronts(args) ==
  [fronts |-> TRUE, backs |-> hasBacksFlag(args) \/ hasBacksOnlyFlag(args)]

ExportOptions(args) ==
  IF ~hasBacksFlag(args) /\ ~hasBacksOnlyFlag(args) /\ ~hasFrontsOnlyFlag(args)
    THEN [fronts |-> TRUE, backs |-> FALSE]
    ELSE [fronts |-> ~hasBacksOnlyFlag(args),
          backs |-> hasBacksFlag(args) \/ hasBacksOnlyFlag(args)]

NoOptions == [fronts |-> FALSE, backs |-> FALSE]

(***************************************************************************)
(* Output layout                                                           *)
(***************************************************************************)
\* path.join(__dirname, '../..', 'decks', deckId)
decksDir(deckId) == <<"decks", deckId>>
imagesDir(deckId) == Append(decksDir(deckId), "images")
\* (backsDirShared: the backs put beside the fronts)
backsDirShared(deckId) == Append(decksDir(deckId), "images")
backsDir(deckId) == Append(decksDir(deckId), "backs")

\* a unit is a (card, side) pair
Unit(card, side) == [card |-> card, side |-> side]

\* the outputPath exportDeck hands to exportCard
outputPath(deckId, u) ==
  IF u.side = "back"
    THEN Append(backsDir(deckId), u.card \o "_back.png")
    ELSE Append(imagesDir(deckId), u.card \o ".png")

\* the directory part of a path
DirOf(p) == SubSeq(p, 1, Len(p) - 1)

\* the calls of exportCard that exportDeck makes when nothing stops it:
\* the fronts loop over deck.cards, then the backs loop over deck.cards
\* (UnitsBacksFirst: the two loops in the other order)
UnitsBacksFirst(opts, cs) ==
  (IF opts.backs THEN [n \in DOMAIN cs |-> Unit(cs[n], "back")] ELSE <<>>)
  \o (IF opts.fronts THEN [n \in DOMAIN cs |-> Unit(cs[n], "front")] ELSE <<>>)

Units(opts, cs) ==
  (IF opts.fronts THEN [n \in DOMAIN cs |-> Unit(cs[n], "front")] ELSE <<>>)
  \o (IF opts.backs THEN [n \in DOMAIN cs |-> Unit(cs[n], "back")] ELSE <<>>)

units == Units(options, cards)

(***************************************************************************)
(* Initial state: the command has been started                             *)
(***************************************************************************)
RunStart ==
  /\ pc = "cli"
  /\ options = NoOptions
  /\ serverState = "Unknown"
  /\ serverProcess = "null"
  /\ spawned = FALSE
  /\ probe = "none"
  /\ ready = FALSE
  /\ i = 0
  /\ killCalls = 0
  /\ browser = "none"
  /\ k = 1
  /\ contexts = 0
  /\ pageConfig = NoConfig
  /\ attempts = <<>>
  /\ failed = {}
  /\ rejections = {}
  /\ written = {}
  /\ escaped = "none"
  /\ loopCompleted = FALSE
  /\ rejected = FALSE
  /\ exitCode = -1

Init ==
  /\ argv \in [deckId : DeckIds \cup {NoDeck}, flags : CommandFlags]
  /\ manifestExists \in BOOLEAN
  /\ cards \in Manifests
  /\ layoutSettings = DefaultConfig
  /\ run = 1
  /\ RunStart
  /\ fs = << >>
  /\ dirs = {}
  /\ fs0 = << >>
  /\ UiIdle

\* process.exit(code), or the process running out of work (code 0)
Exit(code) ==
  /\ pc' = "exited"
  /\ exitCode' = code

(***************************************************************************)
(* CLI entry point: parse the arguments, call exportDeck                   *)
(***************************************************************************)
ParseArgs ==
  /\ pc = "cli"
  /\ IF argv.deckId = NoDeck
       THEN /\ Exit(1)
            /\ UNCHANGED options
       ELSE /\ options' = ExportOptions(argv.flags)
            /\ pc' = "validate"
            /\ UNCHANGED exitCode
  /\ UNCHANGED <<uiVars, inputVars, layoutSettings, serverVars, browser,
                 unitVars, loopCompleted, rejected, diskVars, histVars>>

\* process.exit(1) of exportDeck's 'Deck not found' branch
DeckNotFoundExit == 1

\* (ValidateDeckUnchecked: the existsSync test left out)
ValidateDeckUnchecked ==
  /\ pc = "validate"
  /\ pc' = "mkdir"
  /\ UNCHANGED <<uiVars, inputVars, layoutSettings, options, serverVars,
                 browser, unitVars, loopCompleted, rejected, exitCode,
                 diskVars, histVars>>

\* exportDeck: validate that the deck exists, read it
ValidateDeck ==
  /\ pc = "validate"
  /\ IF ~manifestExists
       THEN Exit(DeckNotFoundExit)
       ELSE /\ pc' = "mkdir"
            /\ UNCHANGED exitCode
  /\ UNCHANGED <<uiVars, inputVars, layoutSettings, options, serverVars,
                 browser, unitVars, loopCompleted, rejected, diskVars,
                 histVars>>

\* exportDeck: ensure the output directories exist
EnsureDirs ==
  /\ pc = "mkdir"
  /\ dirs' = dirs \cup (IF options.fronts THEN {imagesDir(argv.deckId)} ELSE {})
                  \cup (IF options.backs THEN {backsDir(argv.deckId)} ELSE {})
  /\ pc' = "probe"
  /\ UNCHANGED <<uiVars, inputVars, layoutSettings, options, serverVars,
                 browser, unitVars, loopCompleted, rejected, exitCode, fs,
                 histVars>>

(***************************************************************************)
(* startDevServer / isServerRunning / waitForServer                        *)
(***************************************************************************)
\* process.exit(1) of startDevServer's 'Server failed to start' branch
ServerFailedExit == 1

\* startDevServer: the initial probe (isServerRunning); on failure the
\* server is spawned and waitForServer begins
Probe ==
  /\ pc = "probe"
  /\ \E ok \in BOOLEAN :
       /\ ready' = ok
       /\ probe' = IF ok THEN "ok" ELSE "failed"
       /\ IF ok
            THEN /\ serverState' = "Ready"
                 /\ serverProcess' = "null"
                 /\ pc' = "launch"
                 /\ UNCHANGED spawned
            ELSE /\ serverState' = "Spawning"
                 /\ serverProcess' = "child"
                 /\ spawned' = TRUE
                 /\ pc' = "poll"
  /\ i' = 0
  /\ UNCHANGED <<uiVars, inputVars, layoutSettings, options, killCalls,
                 browser, unitVars, loopCompleted, rejected, exitCode,
                 diskVars, histVars>>

\* the loop condition of waitForServer (MorePollsOffByOne: i <= maxAttempts)
MorePollsOffByOne(n) == n <= maxAttempts
MorePolls(n) == n < maxAttempts

\* waitForServer: one iteration of the loop (fetch; sleep 1000 ms when it
\* did not answer ok)
Poll ==
  /\ pc = "poll"
  /\ MorePolls(i)
  /\ \E ok \in BOOLEAN :
       /\ ready' = ok
       /\ IF ok
            THEN /\ serverState' = "Ready"
                 /\ pc' = "launch"
                 /\ i' = 0
            ELSE /\ i' = i + 1
                 /\ UNCHANGED <<serverState, pc>>
  /\ UNCHANGED <<uiVars, inputVars, layoutSettings, options, serverProcess,
                 spawned, probe, killCalls, browser, unitVars, loopCompleted,
                 rejected, exitCode, diskVars, histVars>>

\* waitForServer returned false: kill the child, process.exit(1)
PollExhausted ==
  /\ pc = "poll"
  /\ ~MorePolls(i)
  /\ serverState' = "Failed"
  /\ killCalls' = killCalls + 1
  /\ Exit(ServerFailedExit)
  /\ UNCHANGED <<uiVars, inputVars, layoutSettings, options, serverProcess,
                 spawned, probe, ready, i, browser, unitVars, loopCompleted,
                 rejected, diskVars, histVars>>

\* exportDeck: chromium.launch(), before the try block
LaunchBrowser ==
  /\ pc = "launch"
  /\ \E ok \in BOOLEAN :
       IF ok
         THEN /\ browser' = "open"
              /\ pc' = "loop"
              /\ UNCHANGED rejected
         ELSE /\ rejected' = TRUE
              /\ pc' = "settled"
              /\ UNCHANGED browser
  /\ UNCHANGED <<uiVars, inputVars, layoutSettings, options, serverVars,
                 unitVars, loopCompleted, exitCode, diskVars, histVars>>

(***************************************************************************)
(* exportCard                                                              *)
(***************************************************************************)
Steps == {"newContext", "newPage", "goto", "waitForSelector",
          "waitForTimeout", "screenshot", "close"}

\* the awaited calls of exportCard that are inside its try block
\* (InTryBlockNoWait: the readiness wait left outside it)
InTryBlockNoWait(step) == step \in {"goto", "waitForTimeout", "screenshot"}
InTryBlock(step) ==
  step \in {"goto", "waitForSelector", "waitForTimeout", "screenshot"}

\* an awaited call of exportCard rejects: inside the try block the catch
\* logs it and the finally closes the context; elsewhere the error leaves
\* exportCard, and with it the loops of exportDeck
Raise(step) ==
  /\ rejections' = rejections \cup {<<k, step>>}
  /\ IF InTryBlock(step)
       THEN /\ failed' = failed \cup {<<k, step>>}
            /\ pc' = "close"
            /\ UNCHANGED escaped
       ELSE /\ escaped' = step
            /\ pc' = "finally"
            /\ UNCHANGED failed

\* the environment makes an awaited call of exportCard reject
Reject(step) ==
  /\ Cardinality(rejections) < MaxFaults
  /\ Raise(step)

\* an awaited call of exportCard resolves
Resolve(next) ==
  /\ pc' = next
  /\ UNCHANGED <<failed, rejections, escaped>>

\* the layout configuration an export page renders the card with: the front
\* page reads layout_settings.json on every request, the back page reads none
RenderConfig(side) == IF side = "front" THEN layoutSettings ELSE NoConfig

\* the container the page of a side renders
PageContainer(side) ==
  IF side = "back" THEN BackPageContainer ELSE FrontPageContainer

\* the raster page.screenshot writes: the clip rectangle, trimmed to the
\* viewport, in device pixels; cardWidth x cardHeight of it show the card
\* container
Snapshot(u, cfg) ==
  [card |-> u.card, side |-> u.side, config |-> cfg,
   width |-> Min(ClipRect.width, Viewport.width) * deviceScaleFactor,
   height |-> Min(ClipRect.height, Viewport.height) * deviceScaleFactor,
   cardWidth |-> Min(PageContainer(u.side).width, ClipRect.width)
                   * deviceScaleFactor,
   cardHeight |-> Min(PageContainer(u.side).height, ClipRect.height)
                   * deviceScaleFactor]

\* writing a file: overwrite
WriteFile(files, p, content) ==
  [q \in DOMAIN files \cup {p} |-> IF q = p THEN content ELSE files[q]]

\* the loops of exportDeck call exportCard for the next unit, which opens
\* its context (before the try block)
NewContext ==
  /\ pc = "loop"
  /\ k <= Len(units)
  /\ attempts' = Append(attempts, units[k])
  /\ \/ /\ Resolve("newPage")
        /\ contexts' = contexts + 1
     \/ /\ Reject("newContext")
        /\ UNCHANGED contexts
  /\ UNCHANGED <<uiVars, written, inputVars, layoutSettings, options, serverVars,
                 browser, k, pageConfig, loopCompleted, rejected, exitCode,
                 diskVars, histVars>>

\* context.newPage(), before the try block
NewPage ==
  /\ pc = "newPage"
  /\ \/ Resolve("goto")
     \/ Reject("newPage")
  /\ UNCHANGED <<uiVars, written, inputVars, layoutSettings, options, serverVars,
                 browser, k, contexts, pageConfig, attempts, loopCompleted,
                 rejected, exitCode, diskVars, histVars>>

\* page.goto(exportUrl, networkidle): the server renders the export page
Goto ==
  /\ pc = "goto"
  /\ \/ /\ Resolve("waitForSelector")
        /\ pageConfig' = RenderConfig(units[k].side)
     \/ /\ Reject("goto")
        /\ UNCHANGED pageConfig
  /\ UNCHANGED <<uiVars, written, inputVars, layoutSettings, options, serverVars,
                 browser, k, contexts, attempts, loopCompleted, rejected,
                 exitCode, diskVars, histVars>>

\* page.waitForSelector('[id^="card-"]', 10 s): rejects on timeout, which is
\* certain when the page has no such element
WaitForSelector ==
  /\ pc = "waitForSelector"
  /\ \/ /\ MatchesReadinessSelector(PageElementId(units[k]))
        /\ Resolve("waitForTimeout")
     \/ /\ MatchesReadinessSelector(PageElementId(units[k]))
        /\ Reject("waitForSelector")
     \/ /\ ~MatchesReadinessSelector(PageElementId(units[k]))
        /\ Raise("waitForSelector")
  /\ UNCHANGED <<uiVars, written, inputVars, layoutSettings, options, serverVars,
                 browser, k, contexts, pageConfig, attempts, loopCompleted,
                 rejected, exitCode, diskVars, histVars>>

\* page.waitForTimeout(500): the settle delay
SettleDelay ==
  /\ pc = "waitForTimeout"
  /\ \/ Resolve("screenshot")
     \/ Reject("waitForTimeout")
  /\ UNCHANGED <<uiVars, written, inputVars, layoutSettings, options, serverVars,
                 browser, k, contexts, pageConfig, attempts, loopCompleted,
                 rejected, exitCode, diskVars, histVars>>

\* page.screenshot({ path: outputPath, clip }): writes the file
Screenshot ==
  /\ pc = "screenshot"
  /\ \/ /\ Resolve("close")
        /\ fs' = WriteFile(fs, outputPath(argv.deckId, units[k]),
                           Snapshot(units[k], pageConfig))
        /\ dirs' = dirs \cup {DirOf(outputPath(argv.deckId, units[k]))}
        /\ written' = written \cup {k}
     \/ /\ Reject("screenshot")
        /\ UNCHANGED <<diskVars, written>>
  /\ UNCHANGED <<uiVars, inputVars, layoutSettings, options, serverVars,
                 browser, k, contexts, pageConfig, attempts, loopCompleted,
                 rejected, exitCode, histVars>>

\* the finally of exportCard: context.close(); when it rejects the context
\* may or may not have been closed
CloseContext ==
  /\ pc = "close"
  /\ \/ /\ pc' = "loop"
        /\ k' = k + 1
        /\ contexts' = contexts - 1
        /\ UNCHANGED <<failed, rejections, escaped>>
     \/ /\ Reject("close")
        /\ contexts' \in {contexts, contexts - 1}
        /\ UNCHANGED k
  /\ pageConfig' = NoConfig
  /\ UNCHANGED <<uiVars, written, inputVars, layoutSettings, options, serverVars,
                 browser, attempts, loopCompleted, rejected, exitCode,
                 diskVars, histVars>>

(***************************************************************************)
(* exportDeck: end of the loops, finally block; process end                *)
(***************************************************************************)
\* both loops are through: '✓ Export complete!'
LoopDone ==
  /\ pc = "loop"
  /\ k > Len(units)
  /\ loopCompleted' = TRUE
  /\ pc' = "finally"
  /\ UNCHANGED <<uiVars, inputVars, layoutSettings, options, serverVars,
                 browser, unitVars, rejected, exitCode, diskVars, histVars>>

\* the test guarding serverProcess.kill() in the finally block
\* (OwnsServerAlways: the kill not guarded)
OwnsServerAlways(proc) == TRUE
OwnsServer(proc) == proc # "null"

\* the finally block of exportDeck: browser.close() (which closes the
\* contexts still open), then kill the server if this run spawned it; the
\* promise is rejected when an error is on its way out
Teardown ==
  /\ pc = "finally"
  /\ browser' = "closed"
  /\ contexts' = 0
  /\ killCalls' = killCalls + (IF OwnsServer(serverProcess) THEN 1 ELSE 0)
  /\ rejected' = (escaped # "none")
  /\ pc' = "settled"
  /\ UNCHANGED <<uiVars, inputVars, layoutSettings, options, serverState,
                 serverProcess, spawned, probe, ready, i, k, pageConfig,
                 attempts, failed, rejections, written, escaped,
                 loopCompleted, exitCode, diskVars, histVars>>

\* the exit code once exportDeck's promise is settled: the catch of the CLI
\* entry point calls process.exit(1); otherwise the process ends with 0
\* (ExitCodeStrict: a logged per-unit failure makes the exit code 1)
ExitCodeStrict(rej, errors) == IF rej \/ errors # {} THEN 1 ELSE 0
ExitCodeOf(rej, errors) == IF rej THEN 1 ELSE 0

ProcessEnd ==
  /\ pc = "settled"
  /\ Exit(ExitCodeOf(rejected, failed))
  /\ UNCHANGED <<uiVars, inputVars, layoutSettings, options, serverVars,
                 browser, unitVars, loopCompleted, rejected, diskVars,
                 histVars>>

(***************************************************************************)
(* Environment: the editor saves the configuration; the command is run     *)
(* again on the same deck                                                  *)
(***************************************************************************)
\* EditorPage.handleSave: POST /api/config writes layout_settings.json
EditorSave ==
  /\ layoutSettings = DefaultConfig
  /\ layoutSettings' \in Configs \ {DefaultConfig}
  /\ UNCHANGED <<uiVars, inputVars, run, pc, options, serverVars, browser, unitVars,
                 loopCompleted, rejected, exitCode, diskVars, fs0>>

\* every unit of the list was attempted and none was reported as failed
RunComplete ==
  /\ exitCode = 0
  /\ loopCompleted
  /\ failed = {}

\* after a run that exported every unit the same command line is run
\* again: a new process, the same files
Rerun ==
  /\ pc = "exited"
  /\ RunComplete
  /\ run < MaxRuns
  /\ run' = run + 1
  /\ fs0' = fs
  /\ pc' = "cli"
  /\ options' = NoOptions
  /\ serverState' = "Unknown"
  /\ serverProcess' = "null"
  /\ spawned' = FALSE
  /\ probe' = "none"
  /\ ready' = FALSE
  /\ i' = 0
  /\ killCalls' = 0
  /\ browser' = "none"
  /\ k' = 1
  /\ contexts' = 0
  /\ pageConfig' = NoConfig
  /\ attempts' = <<>>
  /\ failed' = {}
  /\ rejections' = {}
  /\ written' = {}
  /\ escaped' = "none"
  /\ loopCompleted' = FALSE
  /\ rejected' = FALSE
  /\ exitCode' = -1
  /\ UNCHANGED <<uiVars, inputVars, layoutSettings, diskVars>>

Next ==
  \/ ParseArgs
  \/ ValidateDeck
  \/ EnsureDirs
  \/ Probe
  \/ Poll
  \/ PollExhausted
  \/ LaunchBrowser
  \/ NewContext
  \/ NewPage
  \/ Goto
  \/ WaitForSelector
  \/ SettleDelay
  \/ Screenshot
  \/ CloseContext
  \/ LoopDone
  \/ Teardown
  \/ ProcessEnd
  \/ EditorSave
  \/ Rerun

Spec == Init /\ [][Next]_vars

(***************************************************************************)
(* Properties of the export orchestrator                                   *)
(***************************************************************************)
\* the steps that rejected in this run
RejectedSteps == {r[2] : r \in rejections}
\* the positions with a rejected step in this run
RejectedUnits == {r[1] : r \in rejections}
\* the run reached the export loop
ReachedLoop == browser # "none"
\* the process has ended
Exited == pc = "exited"

\* C1 (batch resilience): when the run has ended after reaching the export
\* loop and the only calls that rejected in it were readiness waits
\* (waitForSelector timeouts), the exit code is 0 and every unit whose
\* readiness wait did not time out was written in this run and is on disk
\* at its output path.
C1_BatchResilience ==
  (Exited /\ ReachedLoop /\ RejectedSteps \subseteq {"waitForSelector"})
    => /\ exitCode = 0
       /\ \A n \in DOMAIN units :
            n \notin RejectedUnits
              => /\ n \in written
                 /\ outputPath(argv.deckId, units[n]) \in DOMAIN fs

\* C1 witness: a run of at least two units has ended in which exactly one
\* readiness wait timed out and another unit was written
C1_Witness ==
  /\ Exited
  /\ Len(units) >= 2
  /\ Cardinality(rejections) = 1
  /\ RejectedSteps = {"waitForSelector"}
  /\ written # {}
  /\ exitCode = 0

\* C2 (per-unit errors never pass the export loop), as claimed: when a run
\* that reached the export loop has ended, every unit was attempted, every
\* call of exportCard that rejected was logged for its unit and no error
\* left exportCard.
C2_PerUnitErrorsContained ==
  (Exited /\ ReachedLoop) => /\ Len(attempts) = Len(units)
                             /\ rejections \subseteq failed
                             /\ escaped = "none"

\* C3 (server reuse): when the initial probe succeeded, this run spawned no
\* child process, startDevServer returned null and serverProcess.kill() was
\* never called, in every state up to the end of the run, however it ends.
C3_ServerReuse ==
  probe = "ok" => /\ ~spawned
                  /\ serverProcess = "null"
                  /\ killCalls = 0

\* C3 witness: a run on a reused server has ended by an error that left the
\* export loop
C3_Witness ==
  /\ probe = "ok"
  /\ Exited
  /\ escaped # "none"
  /\ exitCode = 1

\* C4 (owned-server teardown), as claimed: when a run that spawned the server
\* and saw it Ready has ended, the child was killed and no rendering client
\* is left open.
C4_OwnedServerTeardown ==
  (Exited /\ spawned /\ serverState = "Ready")
    => /\ killCalls >= 1
       /\ browser # "open"

\* C5 (spawn failure): the server is spawned only after a failed probe;
\* polling happens in state Spawning only, with at most maxAttempts (30)
\* polls; the state Failed is entered after exactly maxAttempts failed
\* polls, with the child killed, exit code 1, no unit attempted or written
\* and the output files untouched; a spawned server is Ready only by a
\* successful poll, after which nothing polls any more.
C5_SpawnFailure ==
  /\ maxAttempts = 30
  /\ i <= maxAttempts
  /\ (spawned => probe = "failed")
  /\ ((pc = "poll") <=> (serverState = "Spawning"))
  /\ serverState = "Spawning" => /\ spawned
                                 /\ ~ready
                                 /\ killCalls = 0
  /\ serverState = "Failed" => /\ i = maxAttempts
                               /\ ~ready
                               /\ killCalls = 1
                               /\ Exited
                               /\ exitCode = 1
                               /\ attempts = <<>>
                               /\ written = {}
                               /\ browser = "none"
                               /\ fs = fs0
  /\ (serverState = "Ready" /\ spawned) => ready

\* C5 witness: the polls are exhausted and the run has failed
C5_Witness ==
  /\ serverState = "Failed"
  /\ i = 30
  /\ exitCode = 1

ManifestOrder(n) ==
  LET nFronts == IF options.fronts THEN Len(cards) ELSE 0
  IN  IF n <= nFronts THEN Unit(cards[n], "front")
      ELSE Unit(cards[n - nFronts], "back")
RequestedCount ==
  (IF options.fronts THEN Len(cards) ELSE 0)
    + (IF options.backs THEN Len(cards) ELSE 0)

C8_SideSelection ==
  LET N == Len(cards)
      deck == argv.deckId
      sidesTried == {attempts[n].side : n \in DOMAIN attempts}
  IN  /\ argv.flags \in {{}, {"--fronts-only"}}
           => /\ sidesTried \subseteq {"front"}
              /\ (loopCompleted => Len(attempts) = N)
              /\ \A p \in DOMAIN fs : DirOf(p) = imagesDir(deck)
      /\ argv.flags = {"--backs"}
           => (loopCompleted
                => /\ Len(attempts) = 2 * N
                   /\ \A n \in 1..N : /\ attempts[n].side = "front"
                                      /\ attempts[N + n].side = "back")
      /\ argv.flags = {"--backs-only"}
           => /\ sidesTried \subseteq {"back"}
              /\ (loopCompleted => Len(attempts) = N)
              /\ \A p \in DOMAIN fs : DirOf(p) = backsDir(deck)
              /\ ((loopCompleted /\ rejections = {})
                   => Cardinality(DOMAIN fs) = N)
              /\ imagesDir(deck) \notin dirs

\* C8 witness: --backs-only on a two-card deck, both backs written
C8_Witness ==
  /\ argv.flags = {"--backs-only"}
  /\ Exited
  /\ Len(cards) = 2
  /\ Cardinality(DOMAIN fs) = 2
  /\ exitCode = 0

\* every (card, side) pair
AllUnits == {Unit(c, sd) : c \in CardIds, sd \in Sides}

\* distinct (card, side) pairs have distinct output paths
OutputPathsDistinct ==
  \A d \in DeckIds : \A u1, u2 \in AllUnits :
    outputPath(d, u1) = outputPath(d, u2) => u1 = u2

C10_ExactOutputSize ==
  /\ \A p \in DOMAIN fs : /\ fs[p].width = 1500
                          /\ fs[p].height = 2100
                          /\ fs[p].cardWidth = 1500
                          /\ fs[p].cardHeight = 2100
  /\ \A r \in {Viewport, ClipRect, FrontPageContainer, BackPageContainer} :
       /\ r.width = 1500
       /\ r.height = 2100
  /\ deviceScaleFactor = 1

\* C10 witness: a front and a back raster of the exact size are on disk
C10_Witness ==
  \E p, q \in DOMAIN fs : /\ fs[p].side = "front"
                          /\ fs[q].side = "back"
                          /\ fs[p].width = 1500 /\ fs[p].height = 2100
                          /\ fs[q].width = 1500 /\ fs[q].height = 2100
\* C12 (degrade, not fail, end to end): an unrecognized card_type is never
\* an error of the export: the page served for a unit of such a card has
\* the readiness element, as the page of any other card has, so that the
\* unit can be captured.
C12_UnknownTypeExportable ==
  pc = "waitForSelector" => MatchesReadinessSelector(PageElementId(units[k]))

\* the front units captured in the current run
WrittenFronts == {n \in written : units[n].side = "front"}

\* C27 (manifest missing): when deck.json of the requested deck does not
\* exist, the process never creates a directory or a file, never probes or
\* spawns the server, never launches the browser and never opens a context,
\* and when it has exited its exit code is 1.
C27_ManifestMissingAbort ==
  (argv.deckId # NoDeck /\ ~manifestExists) =>
    /\ dirs = {}
    /\ fs = << >>
    /\ probe = "none"
    /\ serverState = "Unknown"
    /\ ~spawned
    /\ serverProcess = "null"
    /\ killCalls = 0
    /\ browser = "none"
    /\ contexts = 0
    /\ (pc = "exited" => exitCode = 1)

\* the export of a deck without a manifest has exited
C27_Witness ==
  /\ argv.deckId # NoDeck
  /\ ~manifestExists
  /\ pc = "exited"
  /\ exitCode = 1

\* C18 (configuration stability during a batch): the front rasters written
\* in one export run were all rendered with the same layout configuration,
\* also when the editor saves a new one while the batch is running.
C18_ConfigStableInBatch ==
  \A n, m \in WrittenFronts :
    fs[outputPath(argv.deckId, units[n])].config
      = fs[outputPath(argv.deckId, units[m])].config

(***************************************************************************)
(* A card is loaded and rendered                                           *)
(***************************************************************************)
\* the export command at rest: nothing was started
ExportIdle ==
  /\ argv = [deckId |-> NoDeck, flags |-> {}]
  /\ manifestExists = FALSE
  /\ cards = <<>>
  /\ layoutSettings = DefaultConfig
  /\ run = 1
  /\ RunStart
  /\ fs = << >>
  /\ dirs = {}
  /\ fs0 = << >>

InitCard ==
  /\ entry \in Entries
  /\ loaded = NotLoaded
  /\ sideProp = NoSide
  /\ rendering = NoRendering
  /\ ExportIdle
  /\ FitIdle
  /\ DragIdle

\* getDeck reads deck.json
LoadDeck ==
  /\ loaded = NotLoaded
  /\ loaded' = getDeck(entry)
  /\ UNCHANGED <<entry, sideProp, rendering, exportVars, fitVars, dragVars>>

\* a page renders <CardFactory card={card} side={side} />
Render ==
  /\ loaded # NotLoaded
  /\ \E side \in SideProps :
       /\ sideProp' = side
       /\ rendering' = Rendering(loaded, side)
  /\ UNCHANGED <<entry, loaded, exportVars, fitVars, dragVars>>

NextCard ==
  \/ LoadDeck
  \/ Render

SpecCard == InitCard /\ [][NextCard]_vars

(***************************************************************************)
(* Properties of loading and dispatch                                      *)
(***************************************************************************)
Rendered == rendering # NoRendering

\* C11 (dispatch totality): whatever CardFactory is called with, it returns
\* a component (it never throws); for a declared card_type the component is
\* the one written for that type and for the requested side, the front one
\* when no side is passed; for an unrecognized card_type it is the
\* 'unknown type' placeholder of the requested side.
C11_DispatchTotality ==
  Rendered =>
    IF loaded["card_type"] \in CardTypes
      THEN \E c \in Components :
             /\ c.name = rendering.component
             /\ c.card_type = loaded["card_type"]
             /\ c.side = (IF sideProp = "back" THEN "back" ELSE "front")
      ELSE rendering.component =
             (IF sideProp = "back" THEN UnknownCardBack ELSE UnknownCardFront)

\* a declared type was rendered on its back, an undeclared one with no side
\* passed
C11_Witness ==
  /\ Rendered
  /\ \/ loaded["card_type"] = "tradition" /\ sideProp = "back"
     \/ loaded["card_type"] = UnknownType /\ sideProp = Omitted

\* C19 (card_type immutability through loading): the card getDeck returns
\* has the card_type and the card_id of the top level of its deck.json
\* entry, whatever the nested front and back objects contain.
C19_IdentityThroughLoading ==
  loaded # NotLoaded =>
    /\ loaded["card_type"] = entry.top["card_type"]
    /\ loaded["card_id"] = entry.top["card_id"]

\* the text nodes a card's own content accounts for: the values of its text
\* fields and its emojis
FieldTexts(card) ==
  {card[f] : f \in DOMAIN card \cap TextFields}
    \cup (IF Truthy(card, "emojis") THEN Range(card["emojis"]) ELSE {})

\* C20 (missing optional fields are omitted): every text node of a rendered
\* front is the value of a field of the card; a spotlight card with only its
\* two names shows exactly the two names, and a connection card without
\* emojis shows no emoji row and no text in its place.
C20_NoPlaceholderText ==
  (Rendered /\ rendering.component \in TextComponents) =>
    /\ rendering.texts \subseteq FieldTexts(loaded)
    /\ (/\ rendering.component = "SpotlightCard"
        /\ {f \in TextFields : Truthy(loaded, f)} =
             {"hebrew_name", "english_name"})
         => rendering.texts = {loaded["hebrew_name"], loaded["english_name"]}

\* the alias pairs of text fields: component field, legacy field, card types
AliasPairs ==
  {[to |-> "hebrew_name", from |-> "character_name_he",
    types |-> {"spotlight"}],
   [to |-> "english_name", from |-> "character_name_en",
    types |-> {"spotlight"}],
   [to |-> "emotion_word_he", from |-> "emotion_label_he",
    types |-> {"spotlight"}],
   [to |-> "emotion_word_en", from |-> "emotion_label_en",
    types |-> {"spotlight"}],
   [to |-> "english_description", from |-> "description_en",
    types |-> {"story"}],
   [to |-> "hebrew_title", from |-> "title_he",
    types |-> {"tradition", "anchor"}],
   [to |-> "english_title", from |-> "title_en",
    types |-> {"tradition", "anchor"}]}

\* the component fields of the table
AliasTargets == {a.to : a \in AliasPairs} \cup {"emojis"}

\* field f is the same in both objects: absent in both, or of one value
SameField(o, n, f) ==
  /\ (f \in DOMAIN o) = (f \in DOMAIN n)
  /\ (f \in DOMAIN o => n[f] = o[f])

\* field to of n is what filling a gap gives: the value of to in o when o
\* has the field, the legacy value when o has only that, absent otherwise
GapFilled(o, n, to, hasLegacy, legacy) ==
  IF to \in DOMAIN o THEN to \in DOMAIN n /\ n[to] = o[to]
  ELSE IF hasLegacy THEN to \in DOMAIN n /\ n[to] = legacy
  ELSE to \notin DOMAIN n

\* C24 (aliases only fill gaps): in the card getDeck returns, compared with
\* the merged entry, the component field of every alias pair of the card's
\* type has kept its value when it was present and has the legacy value
\* (if there is one, and it is not empty) when it was not; the pairs of other card types have changed nothing, and
\* no other field has changed.
C24_AliasFillsGaps ==
  loaded # NotLoaded =>
    LET merged == Merge(entry) IN
      /\ \A a \in AliasPairs :
           IF merged["card_type"] \in a.types
             THEN GapFilled(merged, loaded, a.to, Truthy(merged, a.from),
                            IF Truthy(merged, a.from)
                              THEN merged[a.from] ELSE Blank)
             ELSE SameField(merged, loaded, a.to)
      /\ IF merged["card_type"] = "connection"
           THEN GapFilled(merged, loaded, "emojis",
                          "feeling_faces" \in DOMAIN merged,
                          IF "feeling_faces" \in DOMAIN merged
                            THEN FaceEmojis(merged["feeling_faces"])
                            ELSE <<>>)
           ELSE SameField(merged, loaded, "emojis")
      /\ \A f \in (DOMAIN merged \cup DOMAIN loaded) \ AliasTargets :
           SameField(merged, loaded, f)

\* the three cases of C25: the path of an entry without one, the path of
\* an entry whose path begins with images/, and normalizing once more
ImagePathCases ==
  LET top == entry.top
      path == loaded["image_path"]
  IN  /\ "image_path" \notin DOMAIN top =>
           path = <<"raw", top["card_id"] \o ".png">>
      /\ ("image_path" \in DOMAIN top /\ Head(top["image_path"]) = "images")
           => path = <<"raw">> \o Tail(top["image_path"])
      /\ normalizeImagePath(path, top["card_id"]) = path

\* C25 (illustration path): the image_path of a card getDeck returns is in
\* raw/: raw/<card_id>.png when the entry has none, the path with images/
\* replaced by raw/ when it begins with images/; normalizing it once more
\* changes nothing.
C25_ImagePathInRaw ==
  loaded # NotLoaded =>
    /\ Head(loaded["image_path"]) = "raw"
    /\ ImagePathCases

(***************************************************************************)
(* Part 3: FitText.  Lengths are in units of the model: a text is given by *)
(* the number of its glyphs, and a glyph set in the web font at font size  *)
(* s is s units wide.                                                      *)
(***************************************************************************)
\* largest font size; widest container
MaxPx == 4
MaxWidth == 6

\* the texts: the empty string and a text of one glyph
Texts == {0, 1}

\* smallest font size a caller passes; the padding (the default of the
\* padding prop, 40 px, is the unit of length)
MinPx == 2
Padding == 1

Max(a, b) == IF a >= b THEN a ELSE b

\* the FitText of the ConnectionCard title (maxSize={72} minSize={28}
\* padding={32}), with a title of three glyphs
ConnectionProps ==
  [children |-> 3, maxSize |-> 72, minSize |-> 28, padding |-> 32]

\* the props a parent can pass: minSize <= maxSize
PropChoices ==
  {p \in [children : Texts, maxSize : MinPx..MaxPx,
          minSize : MinPx..MaxPx, padding : {Padding}] :
     p.minSize <= p.maxSize}
  \cup {ConnectionProps}

\* width of the text set at a font size; the fallback font that is used
\* until the web font has loaded is wider
NaturalWidth(children, size, webFont) ==
  children * size + (IF webFont THEN 0 ELSE children)

\* the container in which the ConnectionCard title, once the web font has
\* loaded, is three times as wide as the container
ConnectionWidth ==
  NaturalWidth(ConnectionProps.children, ConnectionProps.maxSize, TRUE) \div 3

\* the widths a container can have
Widths == 0..MaxWidth \cup {ConnectionWidth}

\* the size for a text of natural width naturalWidth (measured at maxSize)
\* in availableWidth (FitUnclamped: the lower clamp left out)
FitUnclamped(naturalWidth, availableWidth, maxSize, minSize) ==
  IF naturalWidth <= availableWidth
    THEN maxSize
    ELSE (maxSize * availableWidth) \div naturalWidth

Fit(naturalWidth, availableWidth, maxSize, minSize) ==
  IF naturalWidth <= availableWidth
    THEN maxSize
    ELSE Max(minSize, (maxSize * availableWidth) \div naturalWidth)

\* the outcome of one call of measure: whether the text was measured, and
\* the argument of setFontSize (Keep: setFontSize is not called)
Keep == -1
Outcome(measured, size) == [measured |-> measured, size |-> size]

\* (MeasureCanvasUnguarded: the returns on an empty text and on a natural
\* width of at most 0 left out)
MeasureCanvasUnguarded(p, w, webFont) ==
  LET availableWidth == w - p.padding * 2
      naturalWidth == NaturalWidth(p.children, p.maxSize, webFont)
  IN  IF availableWidth <= 0 THEN Outcome(FALSE, Keep)
      ELSE Outcome(TRUE, Fit(naturalWidth, availableWidth, p.maxSize,
                             p.minSize))

\* measure of the canvas FitText, with the props p of its closure
MeasureCanvas(p, w, webFont) ==
  LET availableWidth == w - p.padding * 2
      naturalWidth == NaturalWidth(p.children, p.maxSize, webFont)
  IN  IF p.children = 0 THEN Outcome(FALSE, Keep)
      ELSE IF availableWidth <= 0 THEN Outcome(FALSE, Keep)
      ELSE IF naturalWidth <= 0 THEN Outcome(TRUE, Keep)
      ELSE Outcome(TRUE, Fit(naturalWidth, availableWidth, p.maxSize,
                             p.minSize))

\* text.scrollWidth of the DOM FitText after style.fontSize was set to
\* maxSize. The span is a block (display: 'block') of the width of its
\* container, with padding on both sides and whiteSpace: 'nowrap': its
\* scrollWidth is its own width, or where the text ends when the text
\* overflows it
ScrollWidth(p, w, webFont) ==
  Max(w, p.padding + NaturalWidth(p.children, p.maxSize, webFont))

\* the effect body of the DOM FitText
MeasureDom(p, w, webFont) ==
  LET availableWidth == w - p.padding * 2
      naturalWidth == ScrollWidth(p, w, webFont)
  IN  IF availableWidth <= 0 THEN Outcome(FALSE, Keep)
      ELSE Outcome(TRUE, Fit(naturalWidth, availableWidth, p.maxSize,
                             p.minSize))

\* the natural width a call of measure gets
Measured(e, p, w, webFont) ==
  IF e = "canvas" THEN NaturalWidth(p.children, p.maxSize, webFont)
                  ELSE ScrollWidth(p, w, webFont)

\* useState(minSize) in the canvas FitText, useState(maxSize) in the DOM one
InitialFontSize(e, p) == IF e = "canvas" THEN p.minSize ELSE p.maxSize

\* a scheduled callback
Callback(stage, p) == [stage |-> stage, props |-> p]

\* FitText has been rendered for the first time; its effect has not run
InitFit ==
  /\ engine \in {"canvas", "dom"}
  /\ fontsApi \in (IF engine = "canvas" THEN BOOLEAN ELSE {FALSE})
  /\ props \in PropChoices
  /\ fontSize = InitialFontSize(engine, props)
  /\ styleFontSize = fontSize
  /\ width \in Widths
  /\ fontsReady = FALSE
  /\ effectDue = TRUE
  /\ pending = {}
  /\ observer = NoProps
  /\ observerDue = FALSE
  /\ rerendered = FALSE
  /\ last = NoMeasure
  /\ ExportIdle
  /\ CardIdle
  /\ DragIdle

fitFrame == <<exportVars, cardVars, dragVars>>

\* a call of measure whose closure has the props of the last render is
\* recorded
Recorded(p) ==
  IF p = props
    THEN last' = [width |-> width, size |-> fontSize']
    ELSE UNCHANGED last

\* measure(), called by a frame callback or by the ResizeObserver; a state
\* change re-renders the span with the new size
CallMeasure(p) ==
  LET r == MeasureCanvas(p, width, fontsReady) IN
    /\ fontSize' = IF r.size = Keep THEN fontSize ELSE r.size
    /\ styleFontSize' = fontSize'
    /\ Recorded(p)

\* the effect of the canvas FitText: the cleanup of the previous effect
\* disconnects its observer; run is handed to document.fonts.ready, or
\* called at once when there is no such thing; a new ResizeObserver starts
\* observing the container, which makes it deliver a first notification
RunEffect ==
  /\ engine = "canvas"
  /\ effectDue
  /\ effectDue' = FALSE
  /\ pending' = pending \cup
                  {Callback(IF fontsApi THEN "then" ELSE "frame", props)}
  /\ observer' = props
  /\ observerDue' = TRUE
  /\ UNCHANGED <<engine, fontsApi, props, fontSize, styleFontSize, width,
                 fontsReady, rerendered, last, fitFrame>>

\* the web font has loaded: document.fonts.ready resolves
FontsLoaded ==
  /\ engine # "none"
  /\ ~fontsReady
  /\ fontsReady' = TRUE
  /\ last' = NoMeasure
  /\ UNCHANGED <<engine, fontsApi, props, fontSize, styleFontSize, width,
                 effectDue, pending, observer, observerDue, rerendered,
                 fitFrame>>

\* callbacks that were scheduled by an earlier effect than c and have not
\* run further than c: reactions of one promise and animation frame
\* callbacks run in the order in which they were registered
Ahead(c) ==
  {d \in pending : /\ d.props # c.props
                   /\ c.props = props
                   /\ (c.stage = "then" => d.stage = "then")}

\* document.fonts.ready.then(run): run asks for an animation frame
ThenCallback ==
  /\ fontsReady
  /\ \E c \in pending :
       /\ c.stage = "then"
       /\ Ahead(c) = {}
       /\ pending' = (pending \ {c}) \cup {Callback("frame", c.props)}
  /\ UNCHANGED <<engine, fontsApi, props, fontSize, styleFontSize, width,
                 fontsReady, effectDue, observer, observerDue, rerendered,
                 last, fitFrame>>

\* requestAnimationFrame(() => measure())
Frame ==
  /\ \E c \in pending :
       /\ c.stage = "frame"
       /\ Ahead(c) = {}
       /\ pending' = pending \ {c}
       /\ CallMeasure(c.props)
  /\ UNCHANGED <<engine, fontsApi, props, width, fontsReady, effectDue,
                 observer, observerDue, rerendered, fitFrame>>

\* new ResizeObserver(() => measure())
ObserverCallback ==
  /\ observer # NoProps
  /\ observerDue
  /\ observerDue' = FALSE
  /\ CallMeasure(observer)
  /\ UNCHANGED <<engine, fontsApi, props, width, fontsReady, effectDue,
                 pending, observer, rerendered, fitFrame>>

\* the container gets another width
Resize ==
  /\ engine # "none"
  /\ \E w \in Widths \ {width} : width' = w
  /\ observerDue' = (observerDue \/ observer # NoProps)
  /\ UNCHANGED <<engine, fontsApi, props, fontSize, styleFontSize,
                 fontsReady, effectDue, pending, observer, rerendered,
                 last, fitFrame>>

\* the parent renders FitText with other props (another text, other sizes),
\* once; React does not touch the style of the span, whose
\* fontSize is the unchanged state
SetProps ==
  /\ engine # "none"
  /\ ~effectDue
  /\ ~rerendered
  /\ rerendered' = TRUE
  /\ props' \in PropChoices \ {props}
  /\ effectDue' = TRUE
  /\ last' = NoMeasure
  /\ UNCHANGED <<engine, fontsApi, fontSize, styleFontSize, width,
                 fontsReady, pending, observer, observerDue,
                 fitFrame>>

\* the effect of the DOM FitText: it sets style.fontSize of the span to
\* maxSize, reads scrollWidth and calls setFontSize; the span is rendered
\* again only when the state changes
DomEffect ==
  /\ engine = "dom"
  /\ effectDue
  /\ effectDue' = FALSE
  /\ LET r == MeasureDom(props, width, fontsReady) IN
       /\ fontSize' = IF r.size = Keep THEN fontSize ELSE r.size
       /\ styleFontSize' = IF ~r.measured THEN styleFontSize
                           ELSE IF r.size # fontSize THEN r.size
                           ELSE props.maxSize
       /\ Recorded(props)
  /\ UNCHANGED <<engine, fontsApi, props, width, fontsReady, pending,
                 observer, observerDue, rerendered, fitFrame>>

NextFit ==
  \/ RunEffect
  \/ FontsLoaded
  \/ ThenCallback
  \/ Frame
  \/ ObserverCallback
  \/ Resize
  \/ SetProps
  \/ DomEffect

SpecFit == InitFit /\ [][NextFit]_vars

(***************************************************************************)
(* Properties of FitText                                                   *)
(***************************************************************************)
Mounted == engine # "none"

\* C13 (range): with minSize <= maxSize, whatever measurements and
\* re-renders have happened (another text, another container width, the
\* fonts becoming ready, other maxSize or minSize), the font size applied
\* to the text is within [minSize, maxSize] of the current props.
C13_FitRange ==
  Mounted => /\ props.minSize <= styleFontSize
             /\ styleFontSize <= props.maxSize

\* C14 (monotonicity): with text, font, maxSize, minSize and padding fixed
\* (the props are those FitText was mounted with, the font has not changed
\* between the two), of two calls of measure on the same element, one after
\* the other, the one at the narrower container does not leave the larger
\* font size.
C14_FitMonotone ==
  [][(~rerendered' /\ last # NoMeasure /\ last' # NoMeasure) =>
       /\ (last'.width <= last.width => last'.size <= last.size)
       /\ (last.width <= last'.width => last.size <= last'.size)]_vars

\* C15 (precondition violated): a call of measure at a container width of
\* at most twice the padding leaves the font size at minSize, whatever the
\* size was before.
C15_DegenerateWidthMinSize ==
  (last # NoMeasure /\ last.width <= props.padding * 2) =>
    last.size = props.minSize

\* the step is a call of measure, by a frame callback or by the
\* ResizeObserver, that gets as far as measuring the text
MeasuresText ==
  \/ /\ observerDue /\ ~observerDue'
     /\ MeasureCanvas(observer, width, fontsReady).measured
  \/ \E c \in pending \ pending' :
       /\ c.stage = "frame"
       /\ MeasureCanvas(c.props, width, fontsReady).measured

\* C16 (font readiness): the text is never measured before the fonts are
\* ready, whichever way the measurement was triggered.
C16_NoMeasureBeforeFontsReady == [][MeasuresText => fontsReady]_vars

\* C21 (algorithm): a call of measure with the props of the last render, at
\* an available width (container width less twice the padding) above 0 and
\* with a natural width n above 0 at maxSize, leaves the font size maxSize
\* when n is at most the available width and max(minSize,
\* floor(maxSize * available / n)) when it is not; for the title of the
\* ConnectionCard (72, 28, 32) with n three times the container width that
\* is minSize.
C21_FitAlgorithm ==
  LET availableWidth == last.width - props.padding * 2
      n == Measured(engine, props, last.width, fontsReady)
  IN  (last # NoMeasure /\ availableWidth > 0 /\ n > 0) =>
        /\ last.size =
             IF n <= availableWidth
               THEN props.maxSize
               ELSE Max(props.minSize,
                        (props.maxSize * availableWidth) \div n)
        /\ (props = ConnectionProps /\ n = 3 * last.width) =>
             last.size = props.minSize

\* the title of a ConnectionCard, three times as wide as its container, has
\* been measured
C21_Witness ==
  /\ props = ConnectionProps
  /\ last # NoMeasure
  /\ Measured(engine, props, last.width, fontsReady) = 3 * last.width
  /\ last.size = 28

\* the step is a call of measure (by a frame callback, by the
\* ResizeObserver, or the effect of the DOM FitText) for a text whose natural
\* width is at most 0
MeasuresNothing ==
  \/ /\ observerDue /\ ~observerDue'
     /\ Measured(engine, observer, width, fontsReady) <= 0
  \/ \E c \in pending \ pending' :
       /\ c.stage = "frame"
       /\ Measured(engine, c.props, width, fontsReady) <= 0
  \/ /\ engine = "dom" /\ effectDue /\ ~effectDue'
     /\ Measured(engine, props, width, fontsReady) <= 0

C23_NoVisibleSideEffect ==
  [][styleFontSize' \in {styleFontSize, fontSize'}]_vars

\* no callback is pending, no notification is due and the effect of the
\* last render has run
Quiet == pending = {} /\ ~observerDue /\ ~effectDue

\* the size the algorithm gives for the current text, in the current font,
\* and the current container width
SizeNow ==
  Fit(NaturalWidth(props.children, props.maxSize, fontsReady),
      width - props.padding * 2, props.maxSize, props.minSize)

\* C26 (convergence): once nothing is pending, the size applied to a text
\* that is not empty, in a container wider than twice the padding, is the
\* size the algorithm gives for the current text and the current width,
\* whatever the order of text changes, resizes, font-ready callbacks and
\* frame callbacks was (canvas FitText).
C26_Convergence ==
  (/\ engine = "canvas" /\ Quiet
   /\ props.children # 0 /\ width - props.padding * 2 > 0)
    => styleFontSize = SizeNow

(***************************************************************************)
(* Part 4: a card front shown with a layout configuration: the layout of a *)
(* story card, the draggable elements and their saved positions            *)
(***************************************************************************)
\* farthest an element is dragged from its default position, on each axis
MaxDrag == 1

\* the themes of LayoutConfig
Themes ==
  {"standard", "immersive", "immersive-floating", "immersive-cinematic",
   "immersive-clean", "scrapbook"}

\* values config.theme can have in layout_settings.json: a theme, none, a
\* name that is no theme, and a name that is no theme but a property every
\* object has
NoTheme == ""
ThemeValues == Themes \cup {NoTheme, "neon", "constructor"}

\* the LayoutComponents object of StoryCard
LayoutComponents ==
  [t \in Themes |->
     CASE t = "standard" -> "StandardLayout"
       [] t = "immersive" -> "ImmersiveLayout"
       [] t = "immersive-floating" -> "ImmersiveFloatingLayout"
       [] t = "immersive-cinematic" -> "ImmersiveCinematicLayout"
       [] t = "immersive-clean" -> "ImmersiveCleanLayout"
       [] t = "scrapbook" -> "ScrapbookLayout"]

\* LayoutComponents[key]: an own property, a property inherited from
\* Object.prototype (of which the model has one), or undefined
InheritedProperties == {"constructor"}
Undefined == "undefined"
Lookup(key) ==
  IF key \in DOMAIN LayoutComponents THEN LayoutComponents[key]
  ELSE IF key \in InheritedProperties THEN "Object.prototype." \o key
  ELSE Undefined

\* StoryCard: activeTheme = activeConfig.theme || 'standard'; ActiveLayout =
\* LayoutComponents[activeTheme] || StandardLayout
ActiveLayout(t) ==
  LET activeTheme == IF t = NoTheme THEN "standard" ELSE t
      found == Lookup(activeTheme)
  IN  IF found = Undefined THEN "StandardLayout" ELSE found

\* the card types whose fronts are shown
ShownTypes == {"story", "connection", "spotlight"}

\* what renders the front of a card of a type under a theme
Layout(type, t) ==
  CASE type = "story" -> ActiveLayout(t)
    [] type = "connection" -> "ConnectionCard"
    [] type = "spotlight" -> "SpotlightCard"

Layouts == {Layout(type, t) : type \in ShownTypes, t \in ThemeValues}

\* the ids of the DraggableElements of a layout
Zones(layout) ==
  CASE layout = "StandardLayout" ->
         {"header-bar", "keyword-badge", "description-section",
          "footer-section"}
    [] layout = "ImmersiveLayout" ->
         {"title-group", "badge", "keyword-group", "description-group",
          "footer-group"}
    [] layout = "ImmersiveFloatingLayout" ->
         {"title-group", "badge", "content-box"}
    [] layout = "ImmersiveCinematicLayout" -> {"title-group", "keyword-group"}
    [] layout = "ImmersiveCleanLayout" -> {"title-group", "keyword-group"}
    [] layout = "ScrapbookLayout" -> {"sticker-header", "content-card"}
    [] layout = "ConnectionCard" -> {"title-group", "emoji-strip"}
    [] layout = "SpotlightCard" -> {"spotlight-names", "emotion-badge"}
    [] OTHER -> {}

ElementIds == UNION {Zones(l) : l \in Layouts}

\* the elements the user drags
Handles == {"title-group", "emotion-badge"}

Zero == [x |-> 0, y |-> 0]
Offsets == [x : -MaxDrag..MaxDrag, y : -MaxDrag..MaxDrag]

\* config.elementPositions = {}
NoPositions == [defined |-> TRUE, at |-> <<>>]

\* (PositionNeverSaved: the saved position not looked up)
PositionNeverSaved(ep, id) == Zero

\* config.elementPositions?.[id] || { x: 0, y: 0 }
Position(ep, id) ==
  IF ep.defined /\ id \in DOMAIN ep.at THEN ep.at[id] ELSE Zero

\* DraggableElement: initial / animate of every element of a layout
RenderOffsets(layout, ep) == [id \in Zones(layout) |-> Position(ep, id)]

\* the front of a card of a type, rendered with a configuration
RenderFront(type, t, ep) ==
  [layout |-> Layout(type, t), offsets |-> RenderOffsets(Layout(type, t), ep)]

\* a page shows a card with the configuration it loaded; a card that gets no
\* config prop uses DEFAULT_LAYOUT_CONFIG
InitDrag ==
  /\ host \in [config : BOOLEAN, onConfigChange : BOOLEAN]
  /\ theme \in (IF host.config THEN ThemeValues ELSE {"standard"})
  /\ elementPositions \in
       (IF host.config THEN {Absent, NoPositions} ELSE {Absent})
  /\ shown \in ShownTypes
  /\ applied = RenderFront(shown, theme, elementPositions)
  /\ lastDrag = NoDrag
  /\ trail = "loaded"
  /\ ExportIdle
  /\ CardIdle
  /\ FitIdle

\* (onDragEndOffsetOnly: the saved position not added)
onDragEndOffsetOnly(position, offset) == offset

\* onDragEnd: the arguments x, y of onUpdate
onDragEnd(position, offset) ==
  [x |-> position.x + offset.x, y |-> position.y + offset.y]

\* handlePositionUpdate(id, x, y) of the card components
handlePositionUpdate(id, to) ==
  IF host.onConfigChange /\ host.config
    THEN elementPositions' =
           [defined |-> TRUE,
            at |-> Spread(elementPositions.at, Field(id, to))]
    ELSE UNCHANGED elementPositions

\* a drag of an element of the shown card ends; when the configuration was
\* changed the card is rendered again
DragEnd ==
  /\ trail # "none"
  /\ \E id \in Zones(applied.layout) \cap Handles,
        offset \in Offsets \ {Zero} :
       LET to == onDragEnd(Position(elementPositions, id), offset)
       IN  /\ to \in Offsets
           /\ handlePositionUpdate(id, to)
           /\ lastDrag' = [id |-> id, offset |-> offset]
  /\ applied' = RenderFront(shown, theme, elementPositions')
  /\ trail' = "dragged"
  /\ UNCHANGED <<host, theme, shown, exportVars, cardVars, fitVars>>

\* 'Reset Dragged Positions': update('elementPositions', {})
ResetDraggedPositions ==
  /\ trail # "none"
  /\ host.config
  /\ elementPositions' = NoPositions
  /\ applied' = RenderFront(shown, theme, elementPositions')
  /\ lastDrag' = NoDrag
  /\ trail' = IF trail \in {"dragged", "reset after drag"}
                THEN "reset after drag" ELSE "reset"
  /\ UNCHANGED <<host, theme, shown, exportVars, cardVars, fitVars>>

\* the theme select of the sidebar: update('theme', e.target.value)
SelectTheme ==
  /\ trail # "none"
  /\ host.config
  /\ theme' \in Themes \ {theme}
  /\ applied' = RenderFront(shown, theme', elementPositions)
  /\ lastDrag' = NoDrag
  /\ UNCHANGED <<host, elementPositions, shown, trail, exportVars, cardVars,
                 fitVars>>

\* another card of the deck is looked at, with the same configuration
ShowCard ==
  /\ trail # "none"
  /\ shown' \in ShownTypes \ {shown}
  /\ applied' = RenderFront(shown', theme, elementPositions)
  /\ lastDrag' = NoDrag
  /\ UNCHANGED <<host, theme, elementPositions, trail, exportVars, cardVars,
                 fitVars>>

NextDrag ==
  \/ DragEnd
  \/ ResetDraggedPositions
  \/ SelectTheme
  \/ ShowCard

SpecDrag == InitDrag /\ [][NextDrag]_vars

C29_OffsetIsolation ==
  [][lastDrag' # NoDrag =>
       \A l \in Layouts \ {applied.layout} :
         RenderOffsets(l, elementPositions') =
           RenderOffsets(l, elementPositions)]_vars

\* C30 (theme dispatch): the front of a story card is rendered by the layout
\* of the theme of the configuration, a layout of its own for each of the
\* six themes, and by the standard layout when the configuration has no
\* theme or one that is none of the six.
C30_ThemeDispatch ==
  (trail # "none" /\ shown = "story") =>
    /\ theme \in Themes =>
         /\ applied.layout = LayoutComponents[theme]
         /\ \A other \in Themes \ {theme} :
              LayoutComponents[other] # applied.layout
    /\ theme \notin Themes => applied.layout = "StandardLayout"

====
